---- MODULE Spec2Model ----
(***************************************************************************)
(* The polls application: the four request handlers of polls/views.py over *)
(* the persisted store of Question and Choice rows, driven the way         *)
(* polls/tests.py drives them (create_question, choice_set.create, the     *)
(* test client's GET and POST requests).                                   *)
(*                                                                         *)
(* Time is counted in minutes.  A row's primary key is its position in the *)
(* table (the persistence layer assigns 1, 2, ... and no row is deleted).  *)
(***************************************************************************)
EXTENDS Integers, Sequences, FiniteSets, TLC

VARIABLES
    now,        \* timezone.now(), in minutes
    questions,  \* the Question table: <<[question_text, pub_date], ...>>
    choices,    \* the Choice table: <<[question, choice_text, votes], ...>>
    inflight,   \* per client, its POST /polls/<id>/vote/ request: idle, sent, or done
    request,    \* the call handled by the step just taken (view "" when that step was no handler)
    response,   \* the HTTP response that step produced
    returned,   \* the value that step returned, when the call was a model method
    votes0,     \* history: the votes each Choice row was created with
    accepted    \* history: per Choice row, the handled vote requests that named it validly

vars == <<now, questions, choices, inflight, request, response, returned, votes0, accepted>>

----------------------------------------------------------------------------
(* Bounds of the model *)

MaxQuestions == 2
MaxChoices == 2
MaxNow == 1

(* One day, datetime.timedelta(days=1), in minutes *)
DAY == 1440

(* The questions the tests create: a text, and the offset to now (minutes) of
   its publication. *)
Fixtures ==
    { [question_text |-> "Past question.", delta |-> 0 - DAY],
      [question_text |-> "Actual question.", delta |-> 0],
      [question_text |-> "Future question.", delta |-> 1] }

ChoiceTexts == {"Choice 1"}

InitialVotes == {0, 1}

Clients == {"c1", "c2"}

RECURSIVE SeqsOfLen(_, _)
SeqsOfLen(S, n) ==
    IF n = 0 THEN {<<>>} ELSE {Append(s, x) : s \in SeqsOfLen(S, n - 1), x \in S}

SeqsUpTo(S, n) == UNION {SeqsOfLen(S, i) : i \in 0..n}

----------------------------------------------------------------------------
(* Requests and responses *)

NoContext == [lastest_question_list |-> <<>>, question |-> 0, error_message |-> ""]

NoRequest == [view |-> "", question_id |-> 0, choice |-> 0]

NoResponse == [status_code |-> 0, template |-> "", context |-> NoContext, content |-> <<>>]

Idle == [state |-> "idle", question_id |-> 0, choice |-> 0]

Done == [state |-> "done", question_id |-> 0, choice |-> 0]

(* django.http.HttpResponse(content): status 200, the content as given *)
HttpResponse(content) ==
    [status_code |-> 200, template |-> "", context |-> NoContext, content |-> content]

(* django.shortcuts.render(request, template, context): status 200; the body is
   what the templating layer makes of (template, context) *)
render(template, context) ==
    [status_code |-> 200, template |-> template, context |-> context, content |-> <<>>]

(* The response the framework makes of a raised Http404 *)
Http404 ==
    [status_code |-> 404, template |-> "", context |-> NoContext, content |-> <<>>]

----------------------------------------------------------------------------
(* The persistence layer, as the handlers use it *)

QuestionIds == 1..Len(questions)

ChoiceIds == 1..Len(choices)

(* Question.objects.all(): every row of the table, in primary-key order *)
objects_all == [i \in QuestionIds |-> i]

(* get_object_or_404(Question, pk=question_id): the row's key, or 0 for the
   raised Http404 when no row has that primary key *)
get_object_or_404(question_id) ==
    IF question_id \in QuestionIds THEN question_id ELSE 0

(* question.choice_set: the Choice rows of a question *)
choice_set(q) == {c \in ChoiceIds : choices[c].question = q}

(* A variant that forgets the upper limit: pub_date >= now - timedelta(days=1) *)
was_published_recently_no_upper(q) ==
    now - DAY <= questions[q].pub_date

(* Question.was_published_recently():
   now - timedelta(days=1) <= pub_date <= now *)
was_published_recently(q) ==
    /\ now - DAY <= questions[q].pub_date
    /\ questions[q].pub_date <= now

----------------------------------------------------------------------------
(* The store after construction: empty tables, no request sent. *)
Init ==
    /\ now = 0
    /\ questions = <<>>
    /\ choices = <<>>
    /\ inflight = [k \in Clients |-> Idle]
    /\ request = NoRequest
    /\ response = NoResponse
    /\ returned = FALSE
    /\ votes0 = <<>>
    /\ accepted = <<>>

(* A step that handles no call leaves no response behind. *)
Quiet == request' = NoRequest /\ response' = NoResponse /\ returned' = FALSE

(* Time passes. *)
Tick ==
    /\ now < MaxNow
    /\ now' = now + 1
    /\ Quiet
    /\ UNCHANGED <<questions, choices, inflight, votes0, accepted>>

(* Question.save(): the row is inserted; nothing about its choices is checked. *)
save(question) ==
    /\ questions' = Append(questions, question)
    /\ Quiet
    /\ UNCHANGED <<now, choices, inflight, votes0, accepted>>

(* create_question(question_text, days, hour, minute) *)
create_question(question_text, delta) ==
    /\ Len(questions) < MaxQuestions
    /\ LET time == now + delta
       IN save([question_text |-> question_text, pub_date |-> time])

(* question.choice_set.create(choice_text=..., votes=...) *)
choice_set_create(q, choice_text, votes) ==
    /\ Len(choices) < MaxChoices
    /\ q \in QuestionIds
    /\ choices' = Append(choices, [question |-> q, choice_text |-> choice_text, votes |-> votes])
    /\ votes0' = Append(votes0, votes)
    /\ accepted' = Append(accepted, 0)
    /\ Quiet
    /\ UNCHANGED <<now, questions, inflight>>

(* question.was_published_recently(), called on a stored question *)
call_was_published_recently(q) ==
    /\ q \in QuestionIds
    /\ request' = [view |-> "was_published_recently", question_id |-> q, choice |-> 0]
    /\ response' = NoResponse
    /\ returned' = was_published_recently(q)
    /\ UNCHANGED <<now, questions, choices, inflight, votes0, accepted>>

(* GET /polls/ *)
index ==
    /\ request' = [view |-> "index", question_id |-> 0, choice |-> 0]
    /\ LET lastest_question_list == objects_all
       IN response' = render("polls/index.html",
               [NoContext EXCEPT !.lastest_question_list = lastest_question_list])
    /\ returned' = FALSE
    /\ UNCHANGED <<now, questions, choices, inflight, votes0, accepted>>

(* GET /polls/<question_id>/ *)
detail(question_id) ==
    /\ request' = [view |-> "detail", question_id |-> question_id, choice |-> 0]
    /\ LET question == get_object_or_404(question_id)
       IN response' = IF question = 0
                      THEN Http404
                      ELSE render("polls/detail.html", [NoContext EXCEPT !.question = question])
    /\ returned' = FALSE
    /\ UNCHANGED <<now, questions, choices, inflight, votes0, accepted>>

(* GET /polls/<question_id>/results/ *)
results(question_id) ==
    /\ request' = [view |-> "results", question_id |-> question_id, choice |-> 0]
    /\ response' = HttpResponse(<<"Estas viendo los resultados de la pregunta número ",
                                  ToString(question_id), ".">>)
    /\ returned' = FALSE
    /\ UNCHANGED <<now, questions, choices, inflight, votes0, accepted>>

(* Whether a vote request names an existing question and a choice of it *)
IsValidVote(question_id, choice) ==
    /\ question_id \in QuestionIds
    /\ choice \in choice_set(question_id)

(* A client sends POST /polls/<question_id>/vote/ with the form field
   choice=<choice>; choice 0 stands for a form without the field. *)
post(k, question_id, choice) ==
    /\ inflight[k].state = "idle"
    /\ inflight' = [inflight EXCEPT ![k] =
                       [state |-> "sent", question_id |-> question_id, choice |-> choice]]
    /\ Quiet
    /\ UNCHANGED <<now, questions, choices, votes0, accepted>>

(* The history of a handled vote request: it counts for the choice it names
   when it names a choice of an existing question. *)
Record(question_id, choice) ==
    accepted' = IF IsValidVote(question_id, choice)
                THEN [accepted EXCEPT ![choice] = @ + 1]
                ELSE accepted

(* A variant that writes the counter back one lower *)
vote_decrement(k) ==
    /\ inflight[k].state = "sent"
    /\ LET question_id == inflight[k].question_id
           choice == inflight[k].choice
       IN /\ request' = [view |-> "vote", question_id |-> question_id, choice |-> choice]
          /\ response' = HttpResponse(<<"Estas votando en la pregunta número ",
                                        ToString(question_id), ".">>)
          /\ choices' = IF IsValidVote(question_id, choice)
                        THEN [choices EXCEPT ![choice].votes = @ - 1]
                        ELSE choices
          /\ Record(question_id, choice)
    /\ returned' = FALSE
    /\ inflight' = [inflight EXCEPT ![k] = Done]
    /\ UNCHANGED <<now, questions, votes0>>

(* POST /polls/<question_id>/vote/: the handler takes a client's request and
   answers it; it reads neither the form nor the store. *)
vote(k) ==
    /\ inflight[k].state = "sent"
    /\ LET question_id == inflight[k].question_id
           choice == inflight[k].choice
       IN /\ request' = [view |-> "vote", question_id |-> question_id, choice |-> choice]
          /\ response' = HttpResponse(<<"Estas votando en la pregunta número ",
                                        ToString(question_id), ".">>)
          /\ Record(question_id, choice)
    /\ returned' = FALSE
    /\ inflight' = [inflight EXCEPT ![k] = Done]
    /\ UNCHANGED <<now, questions, choices, votes0>>

(* Any positive integer matches the URL pattern: the stored keys and one more. *)
RequestIds == 1..(Len(questions) + 1)

Next ==
    \/ Tick
    \/ \E f \in Fixtures : create_question(f.question_text, f.delta)
    \/ \E q \in QuestionIds, t \in ChoiceTexts, v \in InitialVotes : choice_set_create(q, t, v)
    \/ \E q \in QuestionIds : call_was_published_recently(q)
    \/ index
    \/ \E question_id \in RequestIds : detail(question_id)
    \/ \E question_id \in RequestIds : results(question_id)

Spec == Init /\ [][Next]_vars

----------------------------------------------------------------------------
(* Voting: the handlers over a populated store, with the clients' vote
   requests in flight at the same time. *)

(* The store the result tests set up: a past question and a future one, and
   up to MaxChoices choices among them. *)
VoteQuestions ==
    << [question_text |-> "Past question.", pub_date |-> 0 - DAY],
       [question_text |-> "Future question.", pub_date |-> 1] >>

ChoiceRows ==
    [question : 1..Len(VoteQuestions), choice_text : ChoiceTexts, votes : InitialVotes]

InitVote ==
    /\ now = 0
    /\ questions = VoteQuestions
    /\ choices \in SeqsUpTo(ChoiceRows, MaxChoices)
    /\ votes0 = [c \in ChoiceIds |-> choices[c].votes]
    /\ accepted = [c \in ChoiceIds |-> 0]
    /\ inflight = [k \in Clients |-> Idle]
    /\ request = NoRequest
    /\ response = NoResponse
    /\ returned = FALSE

(* The choice a form can carry: none (0), or the key of a stored choice. *)
FormChoices == 0..Len(choices)

NextVote ==
    \/ \E k \in Clients, question_id \in RequestIds, choice \in FormChoices :
          post(k, question_id, choice)
    \/ \E k \in Clients : vote(k)
    \/ index
    \/ \E question_id \in RequestIds : detail(question_id)
    \/ \E question_id \in RequestIds : results(question_id)

SpecVote == InitVote /\ [][NextVote]_vars

----------------------------------------------------------------------------
(* The properties *)

(* A stored question whose publication timestamp is at or before now *)
Visible(question_id) ==
    /\ question_id \in QuestionIds
    /\ questions[question_id].pub_date <= now

(* pattern occurs in content as a run of consecutive pieces *)
Contains(content, pattern) ==
    \E off \in 0..(Len(content) - Len(pattern)) :
        \A i \in 1..Len(pattern) : content[off + i] = pattern[i]

(* The unit noun of a vote count *)
noun(votes) == IF votes = 1 THEN "vote" ELSE "votes"

(* C1: the list operation returns exactly the questions published at or
   before now, none with a future timestamp, most recent first (so the empty
   list when every stored question is in the future). *)
C1_IndexListsPublishedNewestFirst ==
    request.view = "index" =>
        LET l == response.context.lastest_question_list
        IN /\ response.status_code = 200
           /\ {l[i] : i \in DOMAIN l} = {q \in QuestionIds : Visible(q)}
           /\ \A i, j \in DOMAIN l :
                 i < j => /\ l[i] # l[j]
                          /\ questions[l[i]].pub_date >= questions[l[j]].pub_date

(* C2: the detail operation answers 200 only for a stored question published
   at or before now; for a stored question with a future timestamp it answers
   404, as it does for an identifier that matches no question. *)
C2_DetailHidesFutureQuestions ==
    request.view = "detail" =>
        IF Visible(request.question_id)
        THEN response.status_code = 200
        ELSE response.status_code = 404

(* C3: the results operation answers 404 whenever the identifier matches no
   stored question or the question's timestamp is in the future, and 200 only
   for a stored question published at or before now. *)
C3_ResultsHidesFutureAndUnknown ==
    request.view = "results" =>
        IF Visible(request.question_id)
        THEN response.status_code = 200
        ELSE response.status_code = 404

(* C4: every accepted vote (an existing question, a choice of it) raises that
   choice's counter by exactly 1 and leaves every other choice and all
   questions unchanged. *)
C4_AcceptedVoteAddsOne ==
    [][\A c \in ChoiceIds :
          accepted'[c] = accepted[c] + 1 =>
              /\ choices'[c].votes = choices[c].votes + 1
              /\ \A d \in ChoiceIds \ {c} : choices'[d] = choices[d]
              /\ questions' = questions]_vars

(* C5: once every vote request sent has been handled, each choice's counter
   is its initial value plus the number of accepted votes for it, whatever the
   order the concurrent requests were handled in. *)
C5_NoLostVote ==
    (\A k \in Clients : inflight[k].state # "sent") =>
        \A c \in ChoiceIds : choices[c].votes = votes0[c] + accepted[c]

(* C6: a vote whose choice is missing or is no choice of the given question
   re-renders the detail view with an error message, a vote on an identifier
   that matches no question answers 404, and neither changes a counter. *)
C6_RejectedVoteAnswers ==
    [][(request'.view = "vote" /\ ~IsValidVote(request'.question_id, request'.choice)) =>
          /\ \A c \in ChoiceIds : choices'[c].votes = choices[c].votes
          /\ IF request'.question_id \in QuestionIds
             THEN /\ response'.template = "polls/detail.html"
                  /\ response'.context.question = request'.question_id
                  /\ response'.context.error_message # ""
             ELSE response'.status_code = 404]_vars

(* C7: was_published_recently is true exactly when the publication timestamp
   lies within the 24 hours before now, now included; it is false for a
   timestamp in the future and for one more than 24 hours in the past. *)
C7_RecentlyIsLastDay ==
    request.view = "was_published_recently" =>
        LET age == now - questions[request.question_id].pub_date
        IN /\ (0 <= age /\ age <= DAY) => returned = TRUE
           /\ age < 0 => returned = FALSE
           /\ age > DAY => returned = FALSE

(* C7, its case: the call returned true for a question published exactly one
   day ago, and false for a question that is still in the future. *)
C7_Witness ==
    /\ request.view = "was_published_recently"
    /\ returned = TRUE
    /\ now - questions[request.question_id].pub_date = DAY
    /\ \E q \in QuestionIds : questions[q].pub_date > now

(* C8: for a stored question published at or before now, the results response
   holds the question's text and, for each of its choices, the label with the
   current count and the unit noun: "vote" for exactly 1, "votes" otherwise. *)
C8_ResultsShowChoicesAndVotes ==
    (request.view = "results" /\ Visible(request.question_id)) =>
        /\ response.status_code = 200
        /\ Contains(response.content, <<questions[request.question_id].question_text>>)
        /\ \A c \in choice_set(request.question_id) :
              Contains(response.content,
                       <<choices[c].choice_text, ": ", ToString(choices[c].votes),
                         " ", noun(choices[c].votes)>>)

(* C9: saving a question without choices fails and persists nothing, so the
   store never holds a question with no choice. *)
C9_NoQuestionWithoutChoices ==
    \A q \in QuestionIds : choice_set(q) # {}

(* C10: across list, detail, results and vote operations every counter stays a
   non-negative integer and never goes below an earlier value; list, detail
   and results change no counter at all. *)
C10_CountersNeverDecrease ==
    [][/\ \A c \in ChoiceIds :
             /\ choices[c].votes \in Nat
             /\ choices'[c].votes \in Nat
             /\ choices'[c].votes >= choices[c].votes
       /\ request'.view \in {"index", "detail", "results"} =>
             \A c \in ChoiceIds : choices'[c].votes = choices[c].votes]_vars

(* C10, its case: a vote naming a choice of an existing question has just been
   handled, after another client's vote for the same store was handled too. *)
C10_Witness ==
    /\ request.view = "vote"
    /\ IsValidVote(request.question_id, request.choice)
    /\ response.status_code = 200
    /\ choices[request.choice].votes = 0
    /\ \A k \in Clients : inflight[k].state = "done"
====
